---- MODULE Spec2Model ----
(***************************************************************************)
(* Model of api/index.py: the per-timeframe analysis engine                *)
(* (calculate_indicators, get_htf_trend, detect_wick_anomaly,              *)
(* analyze_timeframe) and the /api/dashboard handler that runs it over the *)
(* eight timeframes.                                                       *)
(*                                                                         *)
(* Abstractions.                                                           *)
(*  - A price frame (pandas DataFrame of candles) is a record: its length  *)
(*    n, the OHLC of its last candle, the values that the indicator        *)
(*    recurrences of calculate_indicators yield on its candle history      *)
(*    (field series), and the indicator columns it currently carries       *)
(*    (field cols; fetch_all_timeframes hands over frames without them).   *)
(*    Frames are complete OHLCV candle series.                             *)
(*  - Prices and ATR are whole numbers, so that 1.5*atr and 2.0*atr are    *)
(*    exact at two decimals; NaN is a value outside the price range on     *)
(*    which every comparison is false.                                     *)
(*  - The running score is kept in thousandths (30 is 30000): the factors  *)
(*    0.9, 0.6, 0.8 and 0.5 are then exact, and on every path of the       *)
(*    scoring code the result equals the floating point one.               *)
(*  - None, and a key missing from a dict, is the empty sequence; a value  *)
(*    that is there is a one-element sequence.                             *)
(*  - analyze_timeframe reads the name oil_df, which it never assigns:     *)
(*    Python looks it up among the globals of the module at the time of    *)
(*    the call.  api/index.py binds no such global, so under Spec, the     *)
(*    program as it is served, the lookup raises NameError.  SpecEngine    *)
(*    and SpecScore exercise the function with every resolution of the     *)
(*    name (unbound, None, a frame), which is what reaches the code after  *)
(*    the lookup.                                                          *)
(*  - The clock is read by get_session_profile_dubai and for the timestamp *)
(*    of the response only, never by analyze_timeframe; session and        *)
(*    timestamp are left out of the response.                              *)
(*                                                                         *)
(* Specifications.                                                         *)
(*    Spec        the dashboard handler: fetch, the loop over ordered_tfs, *)
(*                the response or the except clause.                       *)
(*    SpecEngine  analyze_timeframe called on a data_store in any order,   *)
(*                any number of times.                                     *)
(*    SpecScore   one call of analyze_timeframe, over last candles,        *)
(*                indicator values, higher timeframes and companions.      *)
(***************************************************************************)
EXTENDS Integers, Sequences, FiniteSets, TLC

VARIABLES
    data_store,  \* the dict built by fetch_all_timeframes, frames updated in place
    oil_df,      \* how the global name oil_df of api/index.py resolves
    fetched,     \* data_store as fetch_all_timeframes returned it (history)
    i,           \* dashboard: position in ordered_tfs
    results,     \* dashboard: the list results
    response,    \* dashboard: the JSON body returned, empty while running
    tf_in,       \* single evaluation: the timeframe argument
    call         \* the latest evaluation of analyze_timeframe

vars == <<data_store, oil_df, fetched, i, results, response, tf_in, call>>

----------------------------------------------------------------------------
(* Values *)

None == << >>

NaN == -9999

IsNaN(x) == x = NaN

\* Comparisons of floats: False as soon as one side is NaN.
Gt(a, b) == ~IsNaN(a) /\ ~IsNaN(b) /\ a > b
Lt(a, b) == ~IsNaN(a) /\ ~IsNaN(b) /\ a < b

Abs(x) == IF x < 0 THEN -x ELSE x
Max2(a, b) == IF a > b THEN a ELSE b
Min2(a, b) == IF a < b THEN a ELSE b

ordered_tfs == <<"1m", "5m", "15m", "1h", "2h", "4h", "1d", "1wk">>

Timeframes == {ordered_tfs[k] : k \in 1..Len(ordered_tfs)}

CompanionKeys == {"dxy_1h", "yield_1h", "oil_1h"}

\* str.upper() and str.lower() on the strings the program applies them to.
Upper(s) ==
    CASE s = "1m" -> "1M" [] s = "5m" -> "5M" [] s = "15m" -> "15M"
      [] s = "1h" -> "1H" [] s = "2h" -> "2H" [] s = "4h" -> "4H"
      [] s = "1d" -> "1D" [] s = "1wk" -> "1WK" [] OTHER -> s

Lower(s) ==
    CASE s = "BUY" -> "buy" [] s = "SELL" -> "sell" [] s = "WAIT" -> "wait"
      [] OTHER -> s

htf_map ==
    [k \in {"1M", "5M", "15M", "1H", "2H", "4H", "1D"} |->
        CASE k = "1M" -> "15m" [] k = "5M" -> "1h" [] k = "15M" -> "4h"
          [] k = "1H" -> "4h" [] k = "2H" -> "1d" [] k = "4H" -> "1d"
          [] k = "1D" -> "1wk"]

----------------------------------------------------------------------------
(* Frames *)

NoCols == [present |-> FALSE, EMA20 |-> 0, EMA50 |-> 0, RSI |-> 0,
           DeltaDelta |-> 0, ATR |-> 0]

\* df.empty
Empty(df) == df.n = 0

\* calculate_indicators that drops the rows its rolling windows left NaN
\* (df.dropna(inplace=True)).
calculate_indicators_drops_rows(df) ==
    IF Empty(df) THEN df
    ELSE [df EXCEPT !.n = IF @ > 14 THEN @ - 14 ELSE 0,
                    !.cols =
            [present    |-> TRUE,
             EMA20      |-> df.series.EMA20,
             EMA50      |-> df.series.EMA50,
             RSI        |-> df.series.RSI,
             DeltaDelta |-> df.series.DeltaDelta,
             ATR        |-> df.series.ATR]]

\* calculate_indicators that smooths RSI with the column a previous run left.
calculate_indicators_reuses_columns(df) ==
    IF Empty(df) THEN df
    ELSE [df EXCEPT !.cols =
            [present    |-> TRUE,
             EMA20      |-> df.series.EMA20,
             EMA50      |-> df.series.EMA50,
             RSI        |-> IF df.cols.present /\ ~IsNaN(df.cols.RSI) /\ ~IsNaN(df.series.RSI)
                            THEN (df.cols.RSI + 50) \div 2 ELSE df.series.RSI,
             DeltaDelta |-> df.series.DeltaDelta,
             ATR        |-> df.series.ATR]]

\* calculate_indicators: adds the indicator columns to df in place and returns
\* df.  The rolling windows leave NaN on the last row while the frame is
\* shorter than the window (diff + rolling(14) for RSI, rolling(14) for ATR,
\* two diffs for DeltaDelta); ewm(adjust=False) is defined from the first row.
calculate_indicators(df) ==
    IF Empty(df) THEN df
    ELSE [df EXCEPT !.cols =
            [present    |-> TRUE,
             EMA20      |-> df.series.EMA20,
             EMA50      |-> df.series.EMA50,
             RSI        |-> IF df.n < 15 THEN NaN ELSE df.series.RSI,
             DeltaDelta |-> IF df.n < 3 THEN NaN ELSE df.series.DeltaDelta,
             ATR        |-> IF df.n < 14 THEN NaN ELSE df.series.ATR]]

\* df.iloc[-1]: the last candle with the columns the frame carries.
Last(df) ==
    [Open |-> df.last.Open, High |-> df.last.High, Low |-> df.last.Low,
     Close |-> df.last.Close, EMA20 |-> df.cols.EMA20, EMA50 |-> df.cols.EMA50,
     RSI |-> df.cols.RSI, DeltaDelta |-> df.cols.DeltaDelta, ATR |-> df.cols.ATR]

\* get_htf_trend: the trend of the higher timeframe mapped to current_tf, and
\* the data_store after it (calculate_indicators runs in place on the frame
\* held in data_store when it has no EMA50 column yet).
get_htf_trend(ds, current_tf) ==
    LET up == Upper(current_tf)
        target_htf == IF up \in DOMAIN htf_map THEN <<htf_map[up]>> ELSE None
    IN  IF target_htf = None THEN [trend |-> "NEUTRAL", store |-> ds]
        ELSE
        LET key == Lower(target_htf[1]) IN
        IF ds[key] = None THEN [trend |-> "NEUTRAL", store |-> ds]
        ELSE
        LET htf_df0 == ds[key][1] IN
        IF htf_df0.n < 50 THEN [trend |-> "NEUTRAL", store |-> ds]
        ELSE
        LET htf_df == IF ~htf_df0.cols.present
                      THEN calculate_indicators(htf_df0) ELSE htf_df0
            last == Last(htf_df)
        IN  [trend |-> IF Gt(last.Close, last.EMA50) THEN "BULLISH"
                       ELSE IF Lt(last.Close, last.EMA50) THEN "BEARISH"
                       ELSE "NEUTRAL",
             store |-> [ds EXCEPT ![key] = <<htf_df>>]]

\* detect_wick_anomaly: <<is_wick, wick_type>>.  curr > avg * 2.5 and
\* curr > atr * 0.5, both sides doubled.
detect_wick_anomaly(df) ==
    IF df.n < 15 THEN <<FALSE, "">>
    ELSE
    LET last == Last(df)
        curr_upper == last.High - Max2(last.Open, last.Close)
        curr_lower == Min2(last.Open, last.Close) - last.Low
        atr == IF ~IsNaN(last.ATR) THEN last.ATR ELSE 0
    IN  IF 2 * curr_upper > 5 * df.series.avg_upper_wick /\ 2 * curr_upper > atr
        THEN <<TRUE, "BEARISH REJECTION">>
        ELSE IF 2 * curr_lower > 5 * df.series.avg_lower_wick /\ 2 * curr_lower > atr
        THEN <<TRUE, "BULLISH REJECTION">>
        ELSE <<FALSE, "">>

----------------------------------------------------------------------------
(* analyze_timeframe, block by block.  st holds the local variables:       *)
(* score (in thousandths), trend, reasons, correlation_risk, gold_up       *)
(* (unbound until the DXY block assigns it) and the exception raised.      *)

Start == [score |-> 0, trend |-> "SIDEWAYS", reasons |-> << >>,
          correlation_risk |-> FALSE, gold_up |-> None, raised |-> ""]

Raise(st, e) == [st EXCEPT !.raised = e]

Add(st, pts, reason) ==
    [st EXCEPT !.score = @ + pts * 1000, !.reasons = Append(@, reason)]

\* 1. TREND DETECTION (EMA 20 vs 50)
TrendStep(st, last) ==
    IF Gt(last.EMA20, last.EMA50)
    THEN [Add(st, 30, "EMA 20>50 (Uptrend)") EXCEPT !.trend = "UPTREND"]
    ELSE IF Lt(last.EMA20, last.EMA50)
    THEN [Add(st, -30, "EMA 20<50 (Downtrend)") EXCEPT !.trend = "DOWNTREND"]
    ELSE Add(st, 0, "EMA Mixed (Sideways)")

\* 2. MOMENTUM CONFIRMATION (RSI)
RsiStep(st, last) ==
    IF Gt(last.RSI, 55) THEN Add(st, 25, "RSI > 55 (Bullish)")
    ELSE IF Lt(last.RSI, 45) THEN Add(st, -25, "RSI < 45 (Bearish)")
    ELSE st

\* 3. ACCELERATION LOGIC (Delta of Delta)
AccelStep(st, last) ==
    IF ~IsNaN(last.DeltaDelta)
    THEN IF st.trend = "UPTREND" /\ last.DeltaDelta > 0
         THEN Add(st, 15, "Trend Accelerating (+)")
         ELSE IF st.trend = "DOWNTREND" /\ last.DeltaDelta < 0
         THEN Add(st, -15, "Trend Accelerating (-)")
         ELSE st
    ELSE st

\* 4. VOLATILITY CHECK (ATR Spike)
VolatilityStep(st, last, atr) ==
    LET body == Abs(last.Close - last.Open) IN
    IF body > 3 * atr /\ atr > 0
    THEN [st EXCEPT !.score = 0,
                    !.reasons = Append(@, "ATR Spike (Volatility Trap)")]
    ELSE st

\* 5. STOP-HUNT DETECTION
WickStep(st, df) ==
    LET w == detect_wick_anomaly(df) IN
    IF w[1]
    THEN [st EXCEPT
            !.reasons = Append(@, "Stop-Hunt: " \o w[2]),
            !.score = @ + (IF w[2] = "BULLISH REJECTION" THEN 10000 ELSE 0)
                        - (IF w[2] = "BEARISH REJECTION" THEN 10000 ELSE 0)]
    ELSE st

\* candle['Close'] > candle['Open'] on the last candle of a companion frame
Up(frame) == Gt(frame.Close, frame.Open)

\* 6. CORRELATION CHECKS: the DXY block; it is the one that assigns gold_up.
DxyStep(st, dxy_df, last) ==
    IF dxy_df # None
    THEN LET dxy_up == Up(dxy_df[1])
             gold_up == Gt(last.Close, last.Open)
             st1 == [st EXCEPT !.gold_up = <<gold_up>>]
         IN  IF dxy_up = gold_up
             THEN [st1 EXCEPT !.correlation_risk = TRUE,
                              !.reasons = Append(@, "DXY Correlation Risk")]
             ELSE st1
    ELSE st

\* the yield block: reads gold_up
YieldStep(st, yield_df) ==
    IF st.raised # "" THEN st
    ELSE IF yield_df # None
    THEN IF st.gold_up = None THEN Raise(st, "UnboundLocalError")
         ELSE IF Up(yield_df[1]) = st.gold_up[1]
         THEN [st EXCEPT !.correlation_risk = TRUE,
                         !.reasons = Append(@, "Yield Correlation Risk")]
         ELSE st
    ELSE st

\* the oil block: reads the global name oil_df, then gold_up
OilStep(st, oil) ==
    IF st.raised # "" THEN st
    ELSE IF ~oil.bound THEN Raise(st, "NameError")
    ELSE IF oil.val # None
    THEN IF st.gold_up = None THEN Raise(st, "UnboundLocalError")
         ELSE IF Up(oil.val[1]) # st.gold_up[1]
         THEN [st EXCEPT !.reasons = Append(@, "Oil Divergence"),
                         !.score = (@ * 9) \div 10]
         ELSE st
    ELSE st

\* if correlation_risk: score *= 0.6
RiskStep(st) ==
    IF st.raised # "" THEN st
    ELSE IF st.correlation_risk THEN [st EXCEPT !.score = (@ * 6) \div 10]
    ELSE st

\* The HTF step with the conflict branch subtracting instead of scaling.
HtfStep_conflict_subtracts(st, htf_trend) ==
    IF st.score > 0 /\ htf_trend = "BULLISH" THEN [st EXCEPT !.score = @ + 10000]
    ELSE IF st.score < 0 /\ htf_trend = "BEARISH" THEN [st EXCEPT !.score = @ - 10000]
    ELSE IF st.score # 0 /\ htf_trend = "NEUTRAL" THEN [st EXCEPT !.score = (@ * 8) \div 10]
    ELSE IF st.score > 0 /\ htf_trend = "BEARISH"
    THEN [st EXCEPT !.score = @ - 10000, !.reasons = Append(@, "HTF Conflict")]
    ELSE IF st.score < 0 /\ htf_trend = "BULLISH"
    THEN [st EXCEPT !.score = @ + 10000, !.reasons = Append(@, "HTF Conflict")]
    ELSE st

\* 7. HTF CONFIRMATION
HtfStep(st, htf_trend) ==
    IF st.score > 0 /\ htf_trend = "BULLISH" THEN [st EXCEPT !.score = @ + 10000]
    ELSE IF st.score < 0 /\ htf_trend = "BEARISH" THEN [st EXCEPT !.score = @ - 10000]
    ELSE IF st.score # 0 /\ htf_trend = "NEUTRAL" THEN [st EXCEPT !.score = (@ * 8) \div 10]
    ELSE IF (st.score > 0 /\ htf_trend = "BEARISH") \/ (st.score < 0 /\ htf_trend = "BULLISH")
    THEN [st EXCEPT !.score = (@ * 5) \div 10, !.reasons = Append(@, "HTF Conflict")]
    ELSE st

\* int(x / d): Python's int() truncates toward zero
Trunc(x, d) == IF x >= 0 THEN x \div d ELSE -((-x) \div d)

\* The rescale without the clamp.
DisplayScore_no_clamp(score) == Trunc(75000 + score, 1500)

\* display_score = max(0, min(100, int(50 + score / 1.5)))
DisplayScore(score) == Max2(0, Min2(100, Trunc(75000 + score, 1500)))

Action(display_score) ==
    IF display_score >= 65 THEN "BUY"
    ELSE IF display_score <= 35 THEN "SELL"
    ELSE "WAIT"

\* Prediction for upcoming candle
NextCandle(action, display_score) ==
    IF action = "BUY" /\ display_score > 70 THEN "BUY"
    ELSE IF action = "SELL" /\ display_score < 30 THEN "SELL"
    ELSE IF action # "WAIT" THEN action
    ELSE "WAIT"

\* f"{x:.2f}" of x = h / 2, h >= 0
Fmt2(h) == ToString(h \div 2) \o (IF h % 2 = 0 THEN ".00" ELSE ".50")

EmptyGuide == [entry |-> "-", sl |-> "-", tp |-> "-"]

\* The trade guide without the test of atr.
TradeGuide_ignores_atr(action, atr, current_price) ==
    IF action # "WAIT"
    THEN IF action = "BUY"
         THEN [entry |-> Fmt2(2 * current_price),
               sl |-> Fmt2(2 * current_price - 3 * atr),
               tp |-> Fmt2(2 * current_price + 4 * atr)]
         ELSE [entry |-> Fmt2(2 * current_price),
               sl |-> Fmt2(2 * current_price + 3 * atr),
               tp |-> Fmt2(2 * current_price - 4 * atr)]
    ELSE EmptyGuide

\* Trade Guidance: sl and tp at 1.5 and 2.0 atr from the close
TradeGuide(action, atr, current_price) ==
    IF action # "WAIT" /\ atr > 0
    THEN IF action = "BUY"
         THEN [entry |-> Fmt2(2 * current_price),
               sl |-> Fmt2(2 * current_price - 3 * atr),
               tp |-> Fmt2(2 * current_price + 4 * atr)]
         ELSE [entry |-> Fmt2(2 * current_price),
               sl |-> Fmt2(2 * current_price + 3 * atr),
               tp |-> Fmt2(2 * current_price - 4 * atr)]
    ELSE EmptyGuide

\* ", ".join(reasons)
RECURSIVE Join(_)
Join(reasons) ==
    IF reasons = << >> THEN ""
    ELSE IF Len(reasons) = 1 THEN reasons[1]
    ELSE reasons[1] \o ", " \o Join(Tail(reasons))

----------------------------------------------------------------------------
(* analyze_timeframe *)

Placeholder(tf) ==
    [timeframe |-> Upper(tf), action |-> "WAIT", confidence |-> "0%",
     reason |-> "Insufficient Data", signal |-> "WAIT",
     raw_signal |-> "signal-wait", trade_guide |-> EmptyGuide, score |-> 0,
     description |-> "Fetching market data...", next_candle |-> "WAIT"]

\* The guard with the window of the indicators as its minimum.
InsufficientData_window_14(df) == df = None \/ Empty(df[1]) \/ df[1].n < 14

\* if df is None or df.empty or len(df) < 50
InsufficientData(df) == df = None \/ Empty(df[1]) \/ df[1].n < 50

\* The local variables around the HTF step, kept for inspection.
NoLocals == [reached_htf |-> FALSE, score_before_htf |-> 0, htf_trend |-> "",
             score_after_htf |-> 0]

\* analyze_timeframe(tf, df, data_store), oil being what the global name
\* oil_df resolves to.  df is the frame object held in data_store under tf
\* (dashboard passes data_store.get(tf)), so what calculate_indicators adds
\* to it shows in the store.  Yields the exception raised ("" when none),
\* the dict returned, and the data_store afterwards.
analyze_timeframe(tf, df, ds, oil) ==
    IF InsufficientData(df)
    THEN [raised |-> "", ret |-> <<Placeholder(tf)>>, store |-> ds,
          locals |-> NoLocals]
    ELSE
    LET d == calculate_indicators(df[1])
        ds1 == [ds EXCEPT ![tf] = <<d>>]
        last == Last(d)
        atr == IF ~IsNaN(last.ATR) THEN last.ATR ELSE 0
        dxy_df == ds1["dxy_1h"]
        yield_df == ds1["yield_1h"]
        st3 == AccelStep(RsiStep(TrendStep(Start, last), last), last)
        st5 == WickStep(VolatilityStep(st3, last, atr), d)
        st6 == RiskStep(OilStep(YieldStep(DxyStep(st5, dxy_df, last), yield_df), oil))
    IN  IF st6.raised # ""
        THEN [raised |-> st6.raised, ret |-> None, store |-> ds1,
              locals |-> NoLocals]
        ELSE
        LET h == get_htf_trend(ds1, tf)
            st7 == HtfStep(st6, h.trend)
            display_score == DisplayScore(st7.score)
            action == Action(display_score)
            next_candle == NextCandle(action, display_score)
            trade_guide == TradeGuide(action, atr, last.Close)
            final_reason == Join(st7.reasons)
        IN  [raised |-> "",
             ret |-> <<[timeframe |-> Upper(tf), action |-> action,
                        confidence |-> ToString(display_score) \o "%",
                        reason |-> final_reason, score |-> display_score,
                        signal |-> action, description |-> final_reason,
                        trade_guide |-> trade_guide,
                        raw_signal |-> "signal-" \o Lower(action),
                        next_candle |-> next_candle]>>,
             store |-> h.store,
             locals |-> [reached_htf |-> TRUE, score_before_htf |-> st6.score,
                         htf_trend |-> h.trend, score_after_htf |-> st7.score]]

----------------------------------------------------------------------------
(* Inputs *)

\* Populated keys of a data_store whose frames are chosen freely.
MaxSeries == 2

\* Consecutive evaluations of one timeframe that are told apart.
MaxRepeat == 2

\* A frame as fetch_all_timeframes stores it: n candles, the last one with the
\* given open and close and wicks of the given lengths, on a history that
\* gives EMA20 = 2000 and the given EMA50, RSI, DeltaDelta and ATR, and mean
\* wicks of 1 over the ten candles before the last.
Frame(n, open, close, upper, lower, ema50, rsi, dd, atr) ==
    [n |-> n,
     last |-> [Open |-> open, High |-> Max2(open, close) + upper,
               Low |-> Min2(open, close) - lower, Close |-> close],
     series |-> [EMA20 |-> 2000, EMA50 |-> ema50, RSI |-> rsi,
                 DeltaDelta |-> dd, ATR |-> atr,
                 avg_upper_wick |-> 1, avg_lower_wick |-> 1],
     cols |-> NoCols]

\* rising, no spike (body 10 <= 3 * 4)
Calm(n) == Frame(n, 1990, 2000, 0, 0, 1990, 60, 1, 4)
\* rising, body 10 > 3 * 2, long lower wick
Spiky(n) == Frame(n, 1990, 2000, 0, 3, 1990, 60, 1, 2)
\* falling, no spike
Bear(n) == Frame(n, 2010, 2000, 0, 0, 2010, 40, -1, 4)
\* close on its EMA50
Flat(n) == Frame(n, 2000, 2000, 0, 0, 2000, 50, 0, 4)

UpBar == [Open |-> 100, Close |-> 101]
DownBar == [Open |-> 101, Close |-> 100]

Unbound == [bound |-> FALSE, val |-> None]
Bound(v) == [bound |-> TRUE, val |-> v]

\* api/index.py never assigns the global name oil_df.
ModuleOilDf == Unbound

Store(tfs, dxy, yld, oil) ==
    [k \in Timeframes \cup CompanionKeys |->
        IF k \in Timeframes THEN tfs[k]
        ELSE IF k = "dxy_1h" THEN dxy
        ELSE IF k = "yield_1h" THEN yld
        ELSE oil]

SmallSubsets(S) == {K \in SUBSET S : Cardinality(K) <= MaxSeries}

\* Timeframe parts that are base everywhere but on at most MaxSeries keys.
Varied(base, choices) ==
    UNION { { [k \in Timeframes |-> IF k \in K THEN f[k] ELSE base] :
                f \in [K -> choices] } : K \in SmallSubsets(Timeframes) }

\* What fetch_all_timeframes can hand to dashboard: no gold frame at all, or
\* a frame per timeframe ('1m' is missing when the intraday download is
\* invalid; resampling may leave an empty frame), with or without each
\* companion.
FetchedStores ==
    LET odd == {None, <<Calm(0)>>, <<Calm(49)>>, <<Calm(50)>>, <<Spiky(60)>>}
        tfparts == {t \in Varied(<<Calm(20)>>, odd) :
                      /\ \A k \in Timeframes \ {"1m"} : t[k] # None
                      /\ \A k \in {"1h", "1d", "1wk"} : t[k][1].n > 10}
                   \cup {[k \in Timeframes |-> None]}
        feeds == {<<None, None, None>>, <<<<UpBar>>, None, <<UpBar>>>>,
                  <<None, <<DownBar>>, None>>, <<<<UpBar>>, <<DownBar>>, <<UpBar>>>>}
    IN  { Store(t, c[1], c[2], c[3]) : t \in tfparts, c \in feeds }

\* Arguments of analyze_timeframe when it is called on its own: a data_store
\* with at most MaxSeries frames, and any resolution of oil_df.
EngineStores ==
    { Store(t, dxy, None, None) :
        t \in Varied(None, {<<Calm(60)>>, <<Bear(60)>>}),
        dxy \in {None, <<DownBar>>} }

OilBindings == {Unbound, Bound(None), Bound(<<UpBar>>), Bound(<<DownBar>>)}

\* Last candles and histories for a single evaluation.
Rows ==
    { Frame(60, open, 2000, w[1], w[2], ema50, rsi, dd, atr) :
        open \in {1990, 2000, 2010},
        w \in {<<0, 0>>, <<3, 0>>, <<0, 3>>},
        ema50 \in {1990, 2000, 2010},
        rsi \in {NaN, 40, 60},
        dd \in {NaN, -1, 1},
        atr \in {NaN, 0, 2, 4} }

\* <<tf, data_store>> for a single evaluation: the target frame, the frame of
\* its higher timeframe, the companions.
ScoreInputs ==
    LET targets == {<<r>> : r \in Rows} \cup {None, <<Spiky(49)>>}
        htfs == {None, <<Calm(20)>>, <<Calm(60)>>, <<Bear(60)>>, <<Flat(60)>>}
        comps == {None, <<UpBar>>, <<DownBar>>}
    IN  { <<"1h", Store([k \in Timeframes |->
                            IF k = "1h" THEN t ELSE IF k = "4h" THEN h ELSE None],
                        dxy, yld, None)>> :
            t \in targets, h \in htfs, dxy \in comps, yld \in comps }
        \cup
        { <<"1wk", Store([k \in Timeframes |-> IF k = "1wk" THEN t ELSE None],
                         dxy, yld, None)>> :
            t \in targets, dxy \in comps, yld \in comps }

----------------------------------------------------------------------------
(* State machine *)

NoCall == [tf |-> "", raised |-> "", ret |-> None, locals |-> NoLocals,
           warm |-> {}, rep |-> 0, first_raised |-> "", first_ret |-> None]

\* The record of an evaluation of tf on the store ds that gave out, after the
\* evaluation c: what it raised or returned, the timeframes whose frame
\* already carried indicator columns, its rank among the consecutive
\* evaluations of tf and what the first of them gave.
Called(tf, ds, out, c) ==
    [tf |-> tf, raised |-> out.raised, ret |-> out.ret, locals |-> out.locals,
     warm |-> {k \in Timeframes : ds[k] # None /\ ds[k][1].cols.present},
     rep |-> IF c.tf = tf THEN Min2(c.rep + 1, MaxRepeat) ELSE 1,
     first_raised |-> IF c.tf = tf THEN c.first_raised ELSE out.raised,
     first_ret |-> IF c.tf = tf THEN c.first_ret ELSE out.ret]

Idle ==
    /\ i = 0 /\ results = << >> /\ response = None
    /\ tf_in = "" /\ call = NoCall

(* dashboard *)

Init ==
    /\ data_store = [k \in Timeframes \cup CompanionKeys |-> None]
    /\ fetched = data_store
    /\ oil_df = ModuleOilDf
    /\ Idle

\* data_store = fetch_all_timeframes(); results = []
Fetch ==
    /\ i = 0 /\ response = None
    /\ \E ds \in FetchedStores : data_store' = ds /\ fetched' = ds
    /\ i' = 1
    /\ UNCHANGED <<oil_df, results, response, tf_in, call>>

\* One turn of the loop over ordered_tfs in which analyze_timeframe returns.
LoopStep ==
    /\ response = None /\ i \in 1..Len(ordered_tfs)
    /\ LET tf == ordered_tfs[i]
           df == data_store[tf]
           out == analyze_timeframe(tf, df, data_store, oil_df)
       IN  /\ out.raised = ""
           /\ results' = Append(results, out.ret[1])
           /\ data_store' = out.store
           /\ call' = Called(tf, data_store, out, NoCall)
    /\ i' = i + 1
    /\ UNCHANGED <<oil_df, fetched, response, tf_in>>

\* One turn in which analyze_timeframe raises: control leaves the loop for the
\* except clause around the whole handler body.
LoopRaises ==
    /\ response = None /\ i \in 1..Len(ordered_tfs)
    /\ LET tf == ordered_tfs[i]
           df == data_store[tf]
           out == analyze_timeframe(tf, df, data_store, oil_df)
       IN  /\ out.raised # ""
           /\ data_store' = out.store
           /\ call' = Called(tf, data_store, out, NoCall)
           /\ response' = <<[error |-> <<out.raised>>, signals |-> << >>]>>
    /\ UNCHANGED <<oil_df, fetched, i, results, tf_in>>

\* return jsonify({timestamp, session, "signals": results}) after the loop
Respond ==
    /\ response = None /\ i = Len(ordered_tfs) + 1
    /\ response' = <<[error |-> None, signals |-> results]>>
    /\ UNCHANGED <<data_store, oil_df, fetched, i, results, tf_in, call>>

Next == Fetch \/ LoopStep \/ LoopRaises \/ Respond

Spec == Init /\ [][Next]_vars

(* analyze_timeframe called on its own, any timeframe, any number of times *)

InitEngine ==
    /\ data_store \in EngineStores
    /\ fetched = data_store
    /\ oil_df \in {Unbound, Bound(None)}
    /\ Idle

Evaluate ==
    \E tf \in Timeframes :
        LET out == analyze_timeframe(tf, data_store[tf], data_store, oil_df)
        IN  /\ data_store' = out.store
            /\ call' = Called(tf, data_store, out, call)
            /\ UNCHANGED <<oil_df, fetched, i, results, response, tf_in>>

NextEngine == Evaluate

SpecEngine == InitEngine /\ [][NextEngine]_vars

(* one evaluation of analyze_timeframe *)

InitScore ==
    /\ \E inp \in ScoreInputs : tf_in = inp[1] /\ data_store = inp[2]
    /\ fetched = data_store
    /\ oil_df \in OilBindings
    /\ i = 0 /\ results = << >> /\ response = None /\ call = NoCall

Call ==
    /\ call = NoCall
    /\ LET out == analyze_timeframe(tf_in, data_store[tf_in], data_store, oil_df)
       IN  /\ data_store' = out.store
           /\ call' = Called(tf_in, data_store, out, NoCall)
    /\ UNCHANGED <<oil_df, fetched, i, results, response, tf_in>>

NextScore == Call

SpecScore == InitScore /\ [][NextScore]_vars

----------------------------------------------------------------------------
(* Properties *)

\* The frame given to the latest evaluation, as it was fetched.
Given == fetched[call.tf]

Evaluated == call # NoCall

Returned == Evaluated /\ call.raised = "" /\ call.ret # None

\* The input has at least 50 candles.
Sufficient(df) == df # None /\ df[1].n >= 50

\* The ATR of the last candle of a frame of at least 50 candles.
AtrOf(df) == df[1].series.ATR

\* The body of the last candle exceeds 3 x ATR, ATR > 0.
SpikeInput(df) ==
    /\ Sufficient(df)
    /\ ~IsNaN(AtrOf(df)) /\ AtrOf(df) > 0
    /\ Abs(df[1].last.Close - df[1].last.Open) > 3 * AtrOf(df)

\* C1: in the dashboard batch, a timeframe whose evaluation fails does not
\* abort the batch: the response carries one result per timeframe, in order,
\* a WAIT result for a timeframe that failed.
C1_BatchSurvivesFault ==
    response # None =>
        /\ Len(response[1].signals) = Len(ordered_tfs)
        /\ \A k \in 1..Len(response[1].signals) :
              /\ response[1].signals[k].timeframe = Upper(ordered_tfs[k])
              /\ (analyze_timeframe(ordered_tfs[k], fetched[ordered_tfs[k]],
                                    fetched, oil_df).raised # ""
                    => response[1].signals[k].action = "WAIT")

\* C3: whenever the body of the last candle exceeds 3 x ATR (ATR > 0),
\* analyze_timeframe returns action = WAIT.
C3_SpikeReturnsWait ==
    (Evaluated /\ SpikeInput(Given)) =>
        (Returned /\ call.ret[1].action = "WAIT")

\* What does hold of the volatility trap: a result returned for such a candle
\* is a WAIT (the wick and HTF steps move a score reset to 0 by at most 20,
\* which rescales to 36..63).
SpikeResultIsWait ==
    (Returned /\ SpikeInput(Given)) => call.ret[1].action = "WAIT"

\* C5: with a target of at least 50 candles, analyze_timeframe completes and
\* returns a result whichever companion series are available.
C5_CompanionsNeverRaise ==
    (Evaluated /\ Sufficient(Given)) => Returned

\* C4: a target that is None, empty or shorter than 50 candles gives, without
\* raising and without any indicator being computed, the WAIT result with
\* score 0, reason "Insufficient Data", next_candle WAIT and an empty guide.
C4_InsufficientDataPlaceholder ==
    (Evaluated /\ ~Sufficient(Given)) =>
        /\ Returned
        /\ call.ret[1].action = "WAIT"
        /\ call.ret[1].score = 0
        /\ call.ret[1].reason = "Insufficient Data"
        /\ call.ret[1].next_candle = "WAIT"
        /\ call.ret[1].trade_guide = [entry |-> "-", sl |-> "-", tp |-> "-"]
        /\ data_store = fetched

\* a frame of 49 candles was evaluated
C4_Witness ==
    /\ Evaluated /\ Given # None /\ Given[1].n = 49
    /\ Returned /\ call.ret[1].reason = "Insufficient Data"

\* C2: every result returned carries a score in [0,100].
C2_ScoreInRange ==
    Returned => (call.ret[1].score >= 0 /\ call.ret[1].score <= 100)

\* a result whose rescaled score was above 100 before the clamp
C2_Witness ==
    /\ Returned /\ call.ret[1].score = 100
    /\ call.locals.score_after_htf > 75000

C7_TradeGuideIffActionAndAtr ==
    Returned =>
        LET r == call.ret[1]
            populated == r.trade_guide.entry # "-" /\ r.trade_guide.sl # "-"
                         /\ r.trade_guide.tp # "-"
            atr_positive == Sufficient(Given) /\ ~IsNaN(AtrOf(Given)) /\ AtrOf(Given) > 0
        IN  /\ populated <=> (r.action \in {"BUY", "SELL"} /\ atr_positive)
            /\ ~populated => r.trade_guide = [entry |-> "-", sl |-> "-", tp |-> "-"]

\* a BUY on a frame whose ATR is NaN, with an empty guide
C7_Witness ==
    /\ Returned /\ call.ret[1].action = "BUY"
    /\ IsNaN(AtrOf(Given))
    /\ call.ret[1].trade_guide.entry = "-"

\* The key of the higher timeframe of tf, "" when none is mapped.
HtfKey(tf) == IF Upper(tf) \in DOMAIN htf_map THEN htf_map[Upper(tf)] ELSE ""

\* C10: the HTF step keeps the sign of the score (and zero): agreement adds
\* 10 to the magnitude, conflict halves it, a NEUTRAL trend scales a non-zero
\* score by 0.8; the trend is NEUTRAL when no higher timeframe is mapped, its
\* series is unavailable or has fewer than 50 candles.
C10_HtfStepKeepsSign ==
    (Evaluated /\ call.locals.reached_htf) =>
        LET s == call.locals.score_before_htf
            t == call.locals.score_after_htf
            h == call.locals.htf_trend
            key == HtfKey(call.tf)
        IN  /\ (s > 0 => t > 0) /\ (s < 0 => t < 0) /\ (s = 0 => t = 0)
            /\ (s > 0 /\ h = "BULLISH") => t = s + 10000
            /\ (s < 0 /\ h = "BEARISH") => t = s - 10000
            /\ ((s > 0 /\ h = "BEARISH") \/ (s < 0 /\ h = "BULLISH")) => 2 * t = s
            /\ (s # 0 /\ h = "NEUTRAL") => 10 * t = 8 * s
            /\ (key = "" \/ fetched[key] = None \/ fetched[key][1].n < 50)
                  => h = "NEUTRAL"

\* a small positive score met a BEARISH higher timeframe
C10_Witness ==
    /\ Evaluated /\ call.locals.reached_htf
    /\ call.locals.score_before_htf > 0 /\ call.locals.score_before_htf < 10000
    /\ call.locals.htf_trend = "BEARISH"
    /\ call.locals.score_after_htf > 0

C9_Idempotent ==
    (Evaluated /\ call.rep >= 2) =>
        (call.raised = call.first_raised /\ call.ret = call.first_ret)

\* a repeated evaluation that returned a BUY or a SELL
C9_Witness ==
    /\ Returned /\ call.rep >= 2
    /\ call.ret[1].action \in {"BUY", "SELL"}

====
